---- MODULE Spec2Model ----
(***************************************************************************)
(* A model of the eliquious/lexer tokenizer: the rune reader, the Scanner  *)
(* state machine (scanner.go), the token and keyword tables (tokens.go)    *)
(* and the bounded replay buffer TokenBuffer (buffer.go).                  *)
(*                                                                         *)
(* Runes are one-character strings, Go strings are sequences of runes.     *)
(* A scan result is a record [tok, pos, lit, off]: the (kind, position,    *)
(* literal) triple the Go function returns and the reader's cursor after   *)
(* the call.  Positions are pairs <<Line, Char>>, both zero-based.         *)
(***************************************************************************)
EXTENDS Integers, Sequences, FiniteSets, TLC

VARIABLES
    input,      \* the runes of the io.Reader handed to NewScanner
    off,        \* reader cursor: runes read, net of unread() calls
    res,        \* the triple returned by the last Scan / TokenBuffer.Scan call
    start,      \* reader cursor when the last scanner call began
    prev,       \* the triple returned by the call before the last one
    prevStart,  \* reader cursor when that earlier call began
    tokens,     \* tokens.go: var tokens  (Token -> display string)
    keywords,   \* tokens.go: var keywords (lower-cased name -> Token)
    regs,       \* the last two LoadTokenMap calls, each with the tables it found
    bi,         \* TokenBuffer.i: buffer index
    bn,         \* TokenBuffer.n: pending replay count
    bbuf,       \* TokenBuffer.buf: the circular array of triples
    panicked,   \* a Go runtime panic (index out of range) has ended the program
    produced,   \* the triples the underlying scanner produced for the buffer
    window,     \* the triples TokenBuffer.Scan returned most recently
    before,     \* window as it was when the current run of Unscan calls began
    runK,       \* length of the last run of consecutive Unscan calls
    runJ,       \* Scan calls made since that run
    clean,      \* the pending replay count was zero when that run began
    runBase,    \* number of triples produced when that run began
    fresh       \* the last TokenBuffer.Scan call advanced the underlying scanner

vars == <<input, off, res, start, prev, prevStart, tokens, keywords, regs,
          bi, bn, bbuf, panicked, produced, window, before, runK, runJ, clean, runBase, fresh>>

scanVars == <<input, off, res, start, prev, prevStart>>
tableVars == <<tokens, keywords, regs>>
bufVars == <<bi, bn, bbuf, panicked, produced, window, before, runK, runJ, clean, runBase, fresh>>

-----------------------------------------------------------------------------
(* Bounds of the model.                                                    *)

MaxLenNum == 4
MaxLenFrac == 5
MaxLenStr == 4
MaxLenWs == 4
MaxLenIdent == 4
MaxLenAll == 4
MaxLenOp == 4
MaxLenFair == 3
MaxLenBuf == 8
MaxLenRegex == 6
MaxRegexFresh == 3
MaxRegexPending == 3
MaxCapFresh == 6
MaxCapRegex == 2
MaxFresh == 8
MaxPending == 8

-----------------------------------------------------------------------------
(* tokens.go: the Token enumeration (iota).                                *)

ILLEGAL == 0
EOF == 1
WS == 2
LPAREN == 3
RPAREN == 4
LBRACKET == 5
RBRACKET == 6
LCURLY == 7
RCURLY == 8
COMMA == 9
SEMICOLON == 10
COLON == 11
DOT == 12
SINGLEQUOTE == 13
DOUBLEQUOTE == 14
PERCENT == 15
DOLLAR == 16
HASH == 17
ATSIGN == 18
startLiterals == 19
IDENT == 20
INTEGER == 21
DECIMAL == 22
STRING_ == 23
BADSTRING == 24
BADESCAPE == 25
TRUE_ == 26
FALSE_ == 27
REGEX == 28
BADREGEX == 29
DURATION == 30
endLiterals == 31
startOperators == 32
PLUS == 33
MINUS == 34
MUL == 35
DIV == 36
AMPERSAND == 37
XOR == 38
PIPE == 39
LSHIFT == 40
RSHIFT == 41
POW == 42
ARROW == 43
EQARROW == 44
AND == 45
OR == 46
EQ == 47
NEQ == 48
EQREGEX == 49
NEQREGEX == 50
LT == 51
LTE == 52
GT == 53
GTE == 54
endOperators == 55

\* scanner.go returns NUMBER and DURATION_VAL, which tokens.go does not declare;
\* they are kinds of their own, outside the declared range.
NUMBER == 56
DURATION_VAL == 57

\* A host kind band, as in the README (iota + 1000).
CREATE == 1001
SELECT == 1002

\* The capacity of TokenBuffer.buf.
BufCap == 6

Min(a, b) == IF a < b THEN a ELSE b
Max(a, b) == IF a > b THEN a ELSE b

RECURSIVE Strs(_, _)
Strs(A, n) ==
    IF n = 0 THEN {<<>>}
    ELSE LET S == Strs(A, n - 1)
         IN  S \cup {Append(s, a) : s \in {t \in S : Len(t) = n - 1}, a \in A}

-----------------------------------------------------------------------------
(* Rune classes and the rune reader.                                       *)

\* The end-of-stream sentinel, rune(0).
eof == "eof"

isWhitespace(ch) == ch \in {" ", "\t", "\n"}
UpperRunes == <<"A", "B", "C", "D", "E", "F", "G", "H", "I", "J", "K", "L", "M",
                "N", "O", "P", "Q", "R", "S", "T", "U", "V", "W", "X", "Y", "Z">>
LowerRunes == <<"a", "b", "c", "d", "e", "f", "g", "h", "i", "j", "k", "l", "m",
                "n", "o", "p", "q", "r", "s", "t", "u", "v", "w", "x", "y", "z">>
isLetter(ch) == \E k \in 1..26 : ch = UpperRunes[k] \/ ch = LowerRunes[k]
isDigit(ch) == ch \in {"0", "1", "2", "3", "4", "5", "6", "7", "8", "9"}
isIdentChar(ch) == isLetter(ch) \/ isDigit(ch) \/ ch = "_"

\* strings.ToLower, on the runes the model uses.
ToLowerRune(ch) ==
    IF \E k \in 1..26 : ch = UpperRunes[k]
    THEN LowerRunes[CHOOSE k \in 1..26 : ch = UpperRunes[k]]
    ELSE ch
ToLower(s) == [k \in 1..Len(s) |-> ToLowerRune(s[k])]

\* The k-th rune the reader delivers: the input, then eof for ever.  Index 0 is the
\* zero value of the reader's buffer, met by curr() before anything was read.
runeAt(inp, k) == IF k >= 1 /\ k <= Len(inp) THEN inp[k] ELSE eof

\* Position of the k-th rune: Line counts the newlines before it, Char the runes
\* since the last of them.  Every eof has the position after the last rune.
posAt(inp, k) ==
    IF k <= 0 THEN <<0, 0>>
    ELSE LET j  == Min(k, Len(inp) + 1)
             nl == {m \in 1..(j - 1) : inp[m] = "\n"}
             l0 == IF nl = {} THEN 0 ELSE CHOOSE m \in nl : \A m2 \in nl : m2 <= m
         IN  <<Cardinality(nl), j - 1 - l0>>

\* reader.curr(): the rune before the cursor, and its position.
curr(inp, p) == [ch |-> runeAt(inp, p), pos |-> posAt(inp, p)]

\* Cursors past the first eof all read eof: they are kept as one.
normOff(inp, p) == Min(p, Len(inp) + 1)

Result(t, ps, l, o) == [tok |-> t, pos |-> ps, lit |-> l, off |-> o]
Triple(r) == [tok |-> r.tok, pos |-> r.pos, lit |-> r.lit]
\* No call has returned yet: a kind no call returns.
NoResult == [tok |-> -1, pos |-> <<0, 0>>, lit |-> <<>>]
ZeroTriple == [tok |-> ILLEGAL, pos |-> <<0, 0>>, lit |-> <<>>]

-----------------------------------------------------------------------------
(* tokens.go: the tables.                                                  *)

InitTokens ==
    ILLEGAL :> <<"I", "L", "L", "E", "G", "A", "L">> @@
    EOF :> <<"E", "O", "F">> @@
    WS :> <<"W", "S">> @@
    LPAREN :> <<"(">> @@
    RPAREN :> <<")">> @@
    LBRACKET :> <<"[">> @@
    RBRACKET :> <<"]">> @@
    LCURLY :> <<"{">> @@
    RCURLY :> <<"}">> @@
    COMMA :> <<",">> @@
    SEMICOLON :> <<";">> @@
    COLON :> <<":">> @@
    DOT :> <<".">> @@
    SINGLEQUOTE :> <<"'">> @@
    DOUBLEQUOTE :> <<"\"">> @@
    PERCENT :> <<"%", "%">> @@
    DOLLAR :> <<"$">> @@
    HASH :> <<"#">> @@
    ATSIGN :> <<"@">> @@
    IDENT :> <<"I", "D", "E", "N", "T">> @@
    INTEGER :> <<"I", "N", "T", "E", "G", "E", "R">> @@
    DECIMAL :> <<"D", "E", "C", "I", "M", "A", "L">> @@
    STRING_ :> <<"T", "E", "X", "T", "U", "A", "L">> @@
    DURATION :> <<"D", "U", "R", "A", "T", "I", "O", "N">> @@
    BADSTRING :> <<"B", "A", "D", "S", "T", "R", "I", "N", "G">> @@
    BADESCAPE :> <<"B", "A", "D", "E", "S", "C", "A", "P", "E">> @@
    REGEX :> <<"R", "E", "G", "E", "X">> @@
    BADREGEX :> <<"B", "A", "D", "R", "E", "G", "E", "X">> @@
    PLUS :> <<"+">> @@
    MINUS :> <<"-">> @@
    MUL :> <<"*">> @@
    DIV :> <<"/">> @@
    AMPERSAND :> <<"&">> @@
    XOR :> <<"^">> @@
    PIPE :> <<"|">> @@
    RSHIFT :> <<">", ">">> @@
    LSHIFT :> <<"<", "<">> @@
    POW :> <<"*", "*">> @@
    ARROW :> <<"-", ">">> @@
    EQARROW :> <<"=", ">">> @@
    AND :> <<"A", "N", "D">> @@
    OR :> <<"O", "R">> @@
    TRUE_ :> <<"t", "r", "u", "e">> @@
    FALSE_ :> <<"f", "a", "l", "s", "e">> @@
    EQ :> <<"=">> @@
    NEQ :> <<"!", "=">> @@
    EQREGEX :> <<"=", "~">> @@
    NEQREGEX :> <<"!", "~">> @@
    LT :> <<"<">> @@
    LTE :> <<"<", "=">> @@
    GT :> <<">">> @@
    GTE :> <<">", "=">>

InitKeywords ==
    <<"a", "n", "d">> :> AND @@
    <<"o", "r">> :> OR @@
    <<"t", "r", "u", "e">> :> TRUE_ @@
    <<"f", "a", "l", "s", "e">> :> FALSE_

\* Token.String()
String(tk, t) == IF t \in DOMAIN tk THEN tk[t] ELSE <<>>

\* Token.isOperator()
isOperator(t) == t > startOperators /\ t < endOperators

\* The identifier looked up as written, not lower-cased.
LookupCaseSensitive(kw, ident) == IF ident \in DOMAIN kw THEN kw[ident] ELSE IDENT

\* Lookup(ident)
Lookup(kw, ident) ==
    IF ToLower(ident) \in DOMAIN kw THEN kw[ToLower(ident)] ELSE IDENT

-----------------------------------------------------------------------------
(* scanner.go: the Scanner.  Every operator takes the input, the reader    *)
(* cursor p on entry, and returns the triple with the cursor on return.    *)

\* scanWhitespace: the current rune was read by Scan; read on while whitespace.
\* eof ends the loop consumed, any other rune ends it unread.
RECURSIVE wsLoop(_, _, _)
wsLoop(inp, c, buf) ==
    LET ch == runeAt(inp, c + 1)
    IN  IF ch = eof THEN [lit |-> buf, off |-> c + 1]
        ELSE IF ~isWhitespace(ch) THEN [lit |-> buf, off |-> c]
        ELSE wsLoop(inp, c + 1, Append(buf, ch))

\* One WS token per whitespace rune: the loop left out.
scanWhitespaceOneRune(inp, p) == Result(WS, curr(inp, p).pos, <<curr(inp, p).ch>>, p)

scanWhitespace(inp, p) ==
    LET cur == curr(inp, p)
        r   == wsLoop(inp, p, <<cur.ch>>)
    IN  Result(WS, cur.pos, r.lit, r.off)

\* ScanBareIdent: read identifier runes; eof ends the loop consumed, any other
\* rune ends it unread.
RECURSIVE ScanBareIdent(_, _, _)
ScanBareIdent(inp, c, buf) ==
    LET ch == runeAt(inp, c + 1)
    IN  IF ch = eof THEN [lit |-> buf, off |-> c + 1]
        ELSE IF ~isIdentChar(ch) THEN [lit |-> buf, off |-> c]
        ELSE ScanBareIdent(inp, c + 1, Append(buf, ch))

\* The escapes a quoted literal supports: a backslash before a quote rune.
StringEscapes == {"'", "\""}

\* ScanString: the rune at the cursor is the opening quote, which is also the
\* closing one.  err is "" on success, "badString" at end of input, "badEscape"
\* after a backslash followed by an unsupported rune.
RECURSIVE stringLoop(_, _, _, _)
stringLoop(inp, c, ending, buf) ==
    LET ch0 == runeAt(inp, c + 1)
        ch1 == runeAt(inp, c + 2)
    IN  IF ch0 = ending THEN [lit |-> buf, err |-> "", off |-> c + 1]
        ELSE IF ch0 = eof THEN [lit |-> buf, err |-> "badString", off |-> c + 1]
        ELSE IF ch0 = "\\"
             THEN IF ch1 \in StringEscapes
                  THEN stringLoop(inp, c + 2, ending, Append(buf, ch1))
                  ELSE [lit |-> buf, err |-> "badEscape", off |-> c + 2]
        ELSE stringLoop(inp, c + 1, ending, Append(buf, ch0))

ScanString(inp, c) ==
    LET ending == runeAt(inp, c + 1)
    IN  IF ending = eof THEN [lit |-> <<>>, err |-> "badString", off |-> c + 1]
        ELSE stringLoop(inp, c + 1, ending, <<>>)

\* Where scanString takes the position of a STRING or BADSTRING token: it unreads
\* the opening quote (cursor p - 1) and asks curr().
stringPos(inp, p) == curr(inp, p - 1).pos

\* scanString: the opening quote was read by the caller (cursor p).
scanString(inp, p) ==
    LET pos0 == stringPos(inp, p)
        s    == ScanString(inp, p - 1)
    IN  IF s.err = "badString" THEN Result(BADSTRING, pos0, s.lit, s.off)
        ELSE IF s.err = "badEscape"
             THEN Result(BADESCAPE, curr(inp, s.off).pos, s.lit, s.off)
        ELSE Result(STRING_, pos0, s.lit, s.off)

\* A keyword returned with the text that was read.
identResultKeepsLit(kw, pos0, lit, o) == Result(Lookup(kw, lit), pos0, lit, o)

\* The result of scanIdent once its loop has ended with literal lit.
identResult(kw, pos0, lit, o) ==
    IF Lookup(kw, lit) /= IDENT THEN Result(Lookup(kw, lit), pos0, <<>>, o)
    ELSE Result(IDENT, pos0, lit, o)

\* A quoted literal looked up in the keyword table like a bare one.
quotedResultLookup(kw, pos0, q) ==
    IF q.tok = BADSTRING \/ q.tok = BADESCAPE THEN q
    ELSE identResult(kw, pos0, q.lit, q.off)

\* scanIdent, lines 179-184: what becomes of the result q of scanString.
quotedResult(kw, pos0, q) ==
    IF q.tok = BADSTRING \/ q.tok = BADESCAPE THEN q
    ELSE Result(IDENT, pos0, q.lit, q.off)

\* The loop of scanIdent.
RECURSIVE identLoop(_, _, _, _, _)
identLoop(inp, kw, pos0, c, buf) ==
    LET ch == runeAt(inp, c + 1)
    IN  IF ch = eof THEN identResult(kw, pos0, buf, c + 1)
        ELSE IF ch = "\""
             THEN quotedResult(kw, pos0, scanString(inp, c + 1))
        ELSE IF isIdentChar(ch)
             THEN LET b == ScanBareIdent(inp, c, <<>>)
                  IN  identLoop(inp, kw, pos0, b.off, buf \o b.lit)
        ELSE identResult(kw, pos0, buf, c)

\* scanIdent: the first rune was unread by Scan (cursor p is before it).
scanIdent(inp, kw, p) == identLoop(inp, kw, posAt(inp, p + 1), p, <<>>)

\* scanDigits: read digits; the first other rune (eof too) is unread.
RECURSIVE scanDigits(_, _, _)
scanDigits(inp, c, buf) ==
    LET ch == runeAt(inp, c + 1)
    IN  IF ~isDigit(ch) THEN [lit |-> buf, off |-> c]
        ELSE scanDigits(inp, c + 1, Append(buf, ch))

\* Only the rune after the full stop unread: the full stop stays consumed.
numberBodyOneUnread(inp, c, buf) ==
    LET d   == scanDigits(inp, c, <<>>)
        ch0 == runeAt(inp, d.off + 1)
        ch1 == runeAt(inp, d.off + 2)
    IN  IF ch0 = "." /\ isDigit(ch1)
        THEN LET f == scanDigits(inp, d.off + 2, <<>>)
             IN  [lit |-> buf \o d.lit \o <<ch0, ch1>> \o f.lit, off |-> f.off]
        ELSE IF ch0 = "." THEN [lit |-> buf \o d.lit, off |-> d.off + 1]
        ELSE [lit |-> buf \o d.lit, off |-> d.off]

\* scanNumber, lines 258-273: the digit run, then a full stop and digits if both
\* are there (otherwise both runes are unread).
numberBody(inp, c, buf) ==
    LET d   == scanDigits(inp, c, <<>>)
        ch0 == runeAt(inp, d.off + 1)
        ch1 == runeAt(inp, d.off + 2)
    IN  IF ch0 = "." /\ isDigit(ch1)
        THEN LET f == scanDigits(inp, d.off + 2, <<>>)
             IN  [lit |-> buf \o d.lit \o <<ch0, ch1>> \o f.lit, off |-> f.off]
        ELSE [lit |-> buf \o d.lit, off |-> d.off]

\* A unit forgotten in the list.
DurationUnitsNoWeek == {"u", "µ", "s", "h", "d"}

\* scanNumber, line 278: the one-rune duration units.
DurationUnits == {"u", "µ", "s", "h", "d", "w"}

\* The check for a fractional part left out.
hasFractionNever(lit) == FALSE

\* scanNumber, line 276: strings.Contains(buf.String(), ".").
hasFraction(lit) == \E k \in 1..Len(lit) : lit[k] = "."

\* scanNumber, lines 275-292: the duration suffix, tried only when the literal
\* holds no full stop.
numberSuffix(inp, pos0, b) ==
    LET ch0 == runeAt(inp, b.off + 1)
        ch1 == runeAt(inp, b.off + 2)
    IN  IF ~hasFraction(b.lit)
        THEN IF ch0 \in DurationUnits
             THEN Result(DURATION_VAL, pos0, Append(b.lit, ch0), b.off + 1)
             ELSE IF ch0 = "m"
                  THEN IF ch1 = "s"
                       THEN Result(DURATION_VAL, pos0, b.lit \o <<ch0, ch1>>, b.off + 2)
                       ELSE Result(DURATION_VAL, pos0, Append(b.lit, ch0), b.off + 1)
                  ELSE Result(NUMBER, pos0, b.lit, b.off)
        ELSE Result(NUMBER, pos0, b.lit, b.off)

\* The second peeked rune not looked at.
signStartsNumberOnePeek(ch1, ch2) == isDigit(ch1) \/ ch1 = "."

\* scanNumber, line 237: what must follow a sign for it to start a number.
signStartsNumber(ch1, ch2) == isDigit(ch1) \/ (ch1 = "." /\ isDigit(ch2))

\* scanNumber: the first rune (a digit, a sign, or a full stop) is the current
\* rune (cursor p).
scanNumber(inp, p) ==
    LET cur == curr(inp, p)
        ch1 == runeAt(inp, p + 1)
        ch2 == runeAt(inp, p + 2)
    IN  IF cur.ch = "+" \/ cur.ch = "-"
        THEN IF signStartsNumber(ch1, ch2)
             THEN numberSuffix(inp, cur.pos, numberBody(inp, p, <<cur.ch>>))
             ELSE IF cur.ch = "+" THEN Result(PLUS, cur.pos, <<>>, p)
             ELSE Result(MINUS, cur.pos, <<>>, p)
        ELSE IF cur.ch = "."
             THEN IF ~isDigit(ch1) THEN Result(ILLEGAL, cur.pos, <<".">>, p)
                  ELSE numberSuffix(inp, cur.pos, numberBody(inp, p - 1, <<>>))
        ELSE numberSuffix(inp, cur.pos, numberBody(inp, p - 1, <<>>))

\* Scan, case '.': a number if a digit follows, else DOT.
scanDot(inp, p, pos0) ==
    IF isDigit(runeAt(inp, p + 1)) THEN scanNumber(inp, p)
    ELSE Result(DOT, pos0, <<>>, p)

\* Scan, the one-rune cases of the switch.
SingleTokens ==
    "*" :> MUL @@ "/" :> DIV @@ "(" :> LPAREN @@ ")" :> RPAREN @@
    "[" :> LBRACKET @@ "]" :> RBRACKET @@ "{" :> LCURLY @@ "}" :> RCURLY @@
    "," :> COMMA @@ ";" :> SEMICOLON @@ ":" :> COLON @@ "^" :> XOR @@
    "|" :> PIPE @@ "&" :> AMPERSAND @@ "%" :> PERCENT @@ "$" :> DOLLAR @@
    "#" :> HASH @@ "@" :> ATSIGN

\* The offending rune pushed back.
scanIllegalUnread(ch0, pos0, p) == Result(ILLEGAL, pos0, <<ch0>>, p - 1)

\* Scan, line 130: no case returned (cursor p is after the offending rune).
scanIllegal(ch0, pos0, p) == Result(ILLEGAL, pos0, <<ch0>>, p)

\* The second rune left consumed.
operatorUnreadNone(c) == c

\* Scan, lines 69, 77, 84 and 94: the second rune, read at cursor c, is unread.
operatorUnread(c) == c - 1

\* Scan, the cases '=', '!', '>' and '<': one rune of lookahead (cursor p is
\* after the first rune).
scanOperator(inp, p, ch0, pos0) ==
    LET ch1 == runeAt(inp, p + 1)
    IN  CASE ch0 = "=" ->
               IF ch1 = "~" THEN Result(EQREGEX, pos0, <<>>, p + 1)
               ELSE Result(EQ, pos0, <<>>, operatorUnread(p + 1))
          [] ch0 = "!" ->
               IF ch1 = "=" THEN Result(NEQ, pos0, <<>>, p + 1)
               ELSE IF ch1 = "~" THEN Result(NEQREGEX, pos0, <<>>, p + 1)
               ELSE scanIllegal(ch0, pos0, operatorUnread(p + 1))
          [] ch0 = ">" ->
               IF ch1 = "=" THEN Result(GTE, pos0, <<>>, p + 1)
               ELSE IF ch1 = ">" THEN Result(RSHIFT, pos0, <<>>, p + 1)
               ELSE Result(GT, pos0, <<>>, operatorUnread(p + 1))
          [] OTHER ->
               IF ch1 = "=" THEN Result(LTE, pos0, <<>>, p + 1)
               ELSE IF ch1 = ">" THEN Result(NEQ, pos0, <<>>, p + 1)
               ELSE IF ch1 = "<" THEN Result(LSHIFT, pos0, <<>>, p + 1)
               ELSE Result(LT, pos0, <<>>, operatorUnread(p + 1))

\* The rune of a one-rune token pushed back.
scanSingleUnread(ch0, pos0, p) == Result(SingleTokens[ch0], pos0, <<>>, p - 1)

\* Scan, lines 61-64 and 96-127: the one-rune tokens (cursor p is after the rune).
scanSingle(ch0, pos0, p) == Result(SingleTokens[ch0], pos0, <<>>, p)

\* No case for the end of input: it falls through to ILLEGAL.
scanEofMissing(pos0, p) == Result(ILLEGAL, pos0, <<eof>>, p)

\* Scan, case eof (cursor p is after the eof read).
scanEof(pos0, p) == Result(EOF, pos0, <<>>, p)

\* Scanner.Scan from cursor p.
Scan(inp, kw, p) ==
    LET ch0  == runeAt(inp, p + 1)
        pos0 == posAt(inp, p + 1)
    IN  IF isWhitespace(ch0) THEN scanWhitespace(inp, p + 1)
        ELSE IF isLetter(ch0) \/ ch0 = "_" THEN scanIdent(inp, kw, p)
        ELSE IF isDigit(ch0) THEN scanNumber(inp, p + 1)
        ELSE IF ch0 = eof THEN scanEof(pos0, p + 1)
        ELSE IF ch0 = "\"" THEN scanIdent(inp, kw, p)
        ELSE IF ch0 = "'" THEN scanString(inp, p + 1)
        ELSE IF ch0 = "." THEN scanDot(inp, p + 1, pos0)
        ELSE IF ch0 = "+" \/ ch0 = "-" THEN scanNumber(inp, p + 1)
        ELSE IF ch0 \in {"=", "!", ">", "<"} THEN scanOperator(inp, p + 1, ch0, pos0)
        ELSE IF ch0 \in DOMAIN SingleTokens THEN scanSingle(ch0, pos0, p + 1)
        ELSE scanIllegal(ch0, pos0, p + 1)

\* ScanDelimited with '/' as both sentinels and '/' as the one escape: the loop, the
\* opening '/' read.  err is "" on success, "badEscape" after a backslash before
\* another rune, "bad" at the end of input.
RECURSIVE delimitedLoop(_, _, _)
delimitedLoop(inp, c, buf) ==
    LET ch0 == runeAt(inp, c + 1)
        ch1 == runeAt(inp, c + 2)
    IN  IF ch0 = "/" THEN [lit |-> buf, err |-> "", off |-> c + 1]
        ELSE IF ch0 = eof THEN [lit |-> buf, err |-> "bad", off |-> c + 1]
        ELSE IF ch0 = "\\"
             THEN IF ch1 = "/" THEN delimitedLoop(inp, c + 2, Append(buf, "/"))
                  ELSE [lit |-> buf, err |-> "badEscape", off |-> c + 2]
        ELSE delimitedLoop(inp, c + 1, Append(buf, ch0))

\* ScanDelimited: a rune that is not the opening '/' is an error too.
ScanDelimited(inp, c) ==
    IF runeAt(inp, c + 1) /= "/" THEN [lit |-> <<>>, err |-> "bad", off |-> c + 1]
    ELSE delimitedLoop(inp, c + 1, <<>>)

\* Scanner.ScanRegex from cursor p: the position is asked of curr() before anything
\* is read; the error results carry the empty literal.
ScanRegex(inp, p) ==
    LET pos0 == curr(inp, p).pos
        d    == ScanDelimited(inp, p)
    IN  IF d.err = "badEscape" THEN Result(BADESCAPE, curr(inp, d.off).pos, <<>>, d.off)
        ELSE IF d.err /= "" THEN Result(BADREGEX, pos0, <<>>, d.off)
        ELSE Result(REGEX, pos0, d.lit, d.off)

-----------------------------------------------------------------------------
(* tokens.go: LoadTokenMap.  A Go map is a set of <<kind, name>> pairs     *)
(* with one name per kind.                                                 *)

mapKinds(m) == {e[1] : e \in m}
mapNames(m) == {ToLower(e[2]) : e \in m}
isGoMap(m) == \A e1 \in m, e2 \in m : e1[1] = e2[1] => e1 = e2

\* A kind that has a name keeps it.
loadTokensKeepFirst(tk, m) ==
    [t \in DOMAIN tk \cup mapKinds(m) |->
        IF t \in DOMAIN tk THEN tk[t] ELSE (CHOOSE e \in m : e[1] = t)[2]]

\* First loop (lines 166-168): tokens[k] = v.
loadTokens(tk, m) ==
    [t \in DOMAIN tk \cup mapKinds(m) |->
        IF t \in mapKinds(m) THEN (CHOOSE e \in m : e[1] = t)[2] ELSE tk[t]]

\* The names entered as written, not lower-cased.
loadKeywordsNoLower(kw, m) ==
    {[n \in DOMAIN kw \cup {e[2] : e \in m} |->
        IF \E e \in m : e[2] = n THEN (CHOOSE e \in m : e[2] = n)[1] ELSE kw[n]]}

\* Second loop (lines 171-173): keywords[strings.ToLower(v)] = k.  Go ranges over
\* a map in an unspecified order: when two names of m agree once lower-cased, either
\* kind may be the one written last.
loadKeywords(kw, m) ==
    LET last == {c \in [mapNames(m) -> mapKinds(m)] :
                    \A n \in mapNames(m) : \E e \in m : ToLower(e[2]) = n /\ c[n] = e[1]}
    IN  {[n \in DOMAIN kw \cup mapNames(m) |->
            IF n \in mapNames(m) THEN c[n] ELSE kw[n]] : c \in last}

\* The tables LoadTokenMap(m) may leave.
LoadTokenMap(tk, kw, m) ==
    {[tokens |-> loadTokens(tk, m), keywords |-> k] : k \in loadKeywords(kw, m)}

HostKinds == {CREATE, SELECT}
HostNames == {<<"x">>, <<"X">>, <<"y">>}
HostMaps == {m \in SUBSET (HostKinds \X HostNames) : m /= {} /\ isGoMap(m)}

LoadStep ==
    \E m \in HostMaps : \E o \in LoadTokenMap(tokens, keywords, m) :
        /\ tokens' = o.tokens
        /\ keywords' = o.keywords
        /\ regs' = LET r == Append(regs, [m |-> m, tokens |-> tokens, keywords |-> keywords])
                   IN  IF Len(r) > 2 THEN Tail(r) ELSE r
        /\ UNCHANGED <<scanVars, bufVars>>

-----------------------------------------------------------------------------
(* The Scanner used directly.                                              *)

ScanStep ==
    LET r == Scan(input, keywords, off)
    IN  /\ res' = Triple(r)
        /\ off' = normOff(input, r.off)
        /\ start' = off
        /\ prev' = res
        /\ prevStart' = start
        /\ UNCHANGED <<input, tableVars, bufVars>>

-----------------------------------------------------------------------------
(* buffer.go: TokenBuffer.                                                 *)

\* Go's % truncates towards zero: a negative dividend gives a negative remainder.
GoMod(a, b) == IF a >= 0 THEN a % b ELSE -((-a) % b)

\* The slot before the write cursor returned.
currentIndexOffByOne(i, n) == GoMod(i - n - 1 + BufCap, BufCap)

\* The write cursor left where it is.
nextIndexStay(i) == i

\* ScanFunc, line 44: the slot a fresh token is stored in.
nextIndex(i) == GoMod(i + 1, BufCap)

\* Current, line 56: the slot that is returned.
currentIndex(i, n) == GoMod(i - n + BufCap, BufCap)

lastOf(s, k) == IF Len(s) > k THEN SubSeq(s, Len(s) - k + 1, Len(s)) ELSE s

\* What a TokenBuffer.Scan call leaves in the history variables.
Returned(r, isFresh) ==
    /\ res' = r
    /\ prev' = res
    /\ window' = lastOf(Append(window, r), BufCap - 1)
    /\ runJ' = IF runK > 0 THEN Min(runJ + 1, BufCap + 1) ELSE 0
    /\ fresh' = isFresh
    /\ UNCHANGED <<before, runK, clean, runBase>>

\* The regex scan goes to the scanner whatever is pending.
usesReplayScanOnly(regex) == bn > 0 /\ ~regex

\* ScanFunc, line 38: unread tokens are read off the buffer first, whichever scan
\* function was handed in.
usesReplay(regex) == bn > 0

\* The pending count left as it was.
afterReplayKept(n) == n

\* ScanFunc, line 39: s.n--.
afterReplay(n) == n - 1

\* ScanFunc, lines 39-40: a replay.  An index outside the array is a runtime panic:
\* the call does not return.
Replay ==
    /\ bn' = afterReplay(bn)
    /\ UNCHANGED <<bi, bbuf, off, start, prevStart, produced>>
    /\ IF currentIndex(bi, bn') \in 0..(BufCap - 1)
       THEN panicked' = FALSE /\ Returned(bbuf[currentIndex(bi, bn')], FALSE)
       ELSE /\ panicked' = TRUE
            /\ UNCHANGED <<res, prev, window, runJ, fresh, before, runK, clean, runBase>>

\* The literal of the scanned triple not saved in the slot.
storeAtNoLit(buf, i, t) == [buf EXCEPT ![i] = [t EXCEPT !.lit = <<>>]]

\* ScanFunc, lines 45-46: the triple scan() returned is saved in slot i.
storeAt(buf, i, t) == [buf EXCEPT ![i] = t]

\* ScanFunc, lines 44-48: the scan function is run, s.s.ScanRegex (regex) or s.s.Scan.
FreshScan(regex) ==
    /\ Len(produced) < MaxFresh
    /\ LET r == IF regex THEN ScanRegex(input, off) ELSE Scan(input, keywords, off)
       IN  /\ bi' = nextIndex(bi)
           /\ bbuf' = storeAt(bbuf, bi', Triple(r))
           /\ off' = normOff(input, r.off)
           /\ start' = off
           /\ prevStart' = start
           /\ produced' = Append(produced, Triple(r))
    /\ bn' = bn
    /\ panicked' = FALSE
    /\ Returned(bbuf'[currentIndex(bi', bn')], TRUE)

\* TokenBuffer.ScanFunc(scan).
ScanFunc(regex) ==
    /\ ~panicked
    /\ IF usesReplay(regex) THEN Replay ELSE FreshScan(regex)
    /\ UNCHANGED <<input, tableVars>>

\* TokenBuffer.Scan.
BufScan == ScanFunc(FALSE)

\* TokenBuffer.ScanRegex.
BufScanRegex == ScanFunc(TRUE)

\* TokenBuffer.Unscan: s.n++.
BufUnscan ==
    /\ ~panicked
    /\ bn < MaxPending
    /\ bn' = bn + 1
    /\ IF runK > 0 /\ runJ = 0
       THEN runK' = runK + 1 /\ UNCHANGED <<before, clean, runBase>>
       ELSE /\ runK' = 1
            /\ before' = window
            /\ clean' = (bn = 0)
            /\ runBase' = Len(produced)
    /\ runJ' = 0
    /\ UNCHANGED <<scanVars, tableVars, bi, bbuf, panicked, produced, window, fresh>>

-----------------------------------------------------------------------------
(* Initial states and specifications.                                      *)

\* After NewScanner / NewTokenBuffer over one of inputs, the host having registered
\* one of maps before scanning starts.
InitWith(inputs, maps) ==
    /\ input \in inputs
    /\ off = 0
    /\ res = NoResult
    /\ start = 0
    /\ prev = NoResult
    /\ prevStart = 0
    /\ \E m \in maps : \E o \in LoadTokenMap(InitTokens, InitKeywords, m) :
           tokens = o.tokens /\ keywords = o.keywords
    /\ regs = <<>>
    /\ bi = 0
    /\ bn = 0
    /\ bbuf = [k \in 0..(BufCap - 1) |-> ZeroTriple]
    /\ panicked = FALSE
    /\ produced = <<>>
    /\ window = <<>>
    /\ before = <<>>
    /\ runK = 0
    /\ runJ = 0
    /\ clean = FALSE
    /\ runBase = 0
    /\ fresh = FALSE

AlphaNum == {"1", ".", "+", "-", "s", "m", "u", "µ", "h", "d", "w", "x", " "}
AlphaFrac == {"1", ".", "s", "m", "µ", "\"", " "}
AlphaStr == {"'", "a", "\\", " ", "\n"}
AlphaWs == {" ", "\t", "\n", "a", "1"}
AlphaIdent == {"o", "R", "x", "_", "1", " ", "\""}

AlphaAll == {"1", ".", "s", "o", "r", "\"", "'", "\\", " ", "!", "=", "("}
AlphaOp == {"=", "!", ">", "<", "~", "x"}
AlphaFair == {"1", ".", "+", "s", "\"", "(", " "}

\* The inputs of the replay buffer: the prefixes of one line with tokens of many kinds.
SampleLine == <<"(", "1", "s", " ", "x", "=", "~", ")", "'", "a", "'">>
InputsBuf == {SubSeq(SampleLine, 1, Min(n, Len(SampleLine))) : n \in 0..MaxLenBuf}

\* The inputs of the replay buffer when regex scans are asked for: the prefixes of
\* one line with a regex, an escaped '/' in it, and a bad escape.
SampleRegex == <<"/", "a", "\\", "/", "/", "x", "/", "\\", "a">>
InputsRegex == {SubSeq(SampleRegex, 1, Min(n, Len(SampleRegex))) : n \in 0..MaxLenRegex}

NoMaps == {{}}
IdentMaps == {{}, {<<CREATE, <<"X">>>>}}

\* Numbers, signs and durations.
Init == InitWith(Strs(AlphaNum, MaxLenNum), NoMaps)
Next == ScanStep
Spec == Init /\ [][Next]_vars

\* Fractional numbers and what follows them.
InitFrac == InitWith(Strs(AlphaFrac, MaxLenFrac), NoMaps)
SpecFrac == InitFrac /\ [][Next]_vars

\* Single-quoted strings.
InitStr == InitWith(Strs(AlphaStr, MaxLenStr), NoMaps)
SpecStr == InitStr /\ [][Next]_vars

\* Whitespace.
InitWs == InitWith(Strs(AlphaWs, MaxLenWs), NoMaps)
SpecWs == InitWs /\ [][Next]_vars

\* Identifiers and keywords, built in and registered by the host.
InitIdent == InitWith(Strs(AlphaIdent, MaxLenIdent), IdentMaps)
SpecIdent == InitIdent /\ [][Next]_vars

\* Tokens of every category side by side.
InitAll == InitWith(Strs(AlphaAll, MaxLenAll), NoMaps)
SpecAll == InitAll /\ [][Next]_vars

\* A caller that scans on for as long as calls change anything, on short inputs
\* with a rune of every category.
InitFair == InitWith(Strs(AlphaFair, MaxLenFair), NoMaps)
SpecFair == InitFair /\ [][Next]_vars /\ WF_vars(Next)

\* Operators of one and two runes.
InitOp == InitWith(Strs(AlphaOp, MaxLenOp), NoMaps)
SpecOp == InitOp /\ [][Next]_vars

\* Keyword registration.
InitTok == InitWith({<<>>}, NoMaps)
NextTok == LoadStep
SpecTok == InitTok /\ [][NextTok]_vars

\* The replay buffer over a scanner.
InitBuf == InitWith(InputsBuf, NoMaps)
NextBuf == BufScan \/ BufUnscan
SpecBuf == InitBuf /\ [][NextBuf]_vars

\* The replay buffer with both of its scan entries.
InitRegex == InitWith(InputsRegex, NoMaps)
NextRegex ==
    \/ BufScan /\ Len(produced') <= MaxRegexFresh
    \/ BufScanRegex /\ Len(produced') <= MaxRegexFresh
    \/ BufUnscan /\ bn' <= MaxRegexPending
SpecRegex == InitRegex /\ [][NextRegex]_vars

\* The replay buffer, over the whole sample line, under a caller that never lets
\* more than BufCap tokens be pending and asks the scanner for a regex only among
\* its first tokens.
InitCap == InitWith({SampleRegex}, NoMaps)
NextCap ==
    \/ BufScan /\ Len(produced') <= MaxCapFresh
    \/ BufScanRegex /\ (bn > 0 \/ Len(produced) < MaxCapRegex)
                    /\ Len(produced') <= MaxCapFresh
    \/ BufUnscan /\ bn' <= BufCap
SpecCap == InitCap /\ [][NextCap]_vars

-----------------------------------------------------------------------------
(* What the properties below read off a state.                             *)

\* A scanner call has returned.
called == res /= NoResult
calledTwice == prev /= NoResult

\* The runes the last call, and the call before it, began at.
first == runeAt(input, start + 1)
second == runeAt(input, start + 2)
third == runeAt(input, start + 3)
prevFirst == runeAt(input, prevStart + 1)

\* The last index of the maximal run of runes of class S that begins at index k
\* (k - 1 when the rune at k is not in S).
RunEnd(k, S) ==
    CHOOSE e \in (k - 1)..Len(input) :
        /\ \A j \in k..e : input[j] \in S
        /\ (e = Len(input) \/ input[e + 1] \notin S)

\* The runes of the inputs, by class.
Runes == AlphaNum \cup AlphaFrac \cup AlphaStr \cup AlphaWs \cup AlphaIdent
             \cup AlphaAll \cup AlphaOp \cup AlphaFair
             \cup {SampleLine[k] : k \in DOMAIN SampleLine}
             \cup {SampleRegex[k] : k \in DOMAIN SampleRegex}
Digits == {ch \in Runes : isDigit(ch)}
Blanks == {ch \in Runes : isWhitespace(ch)}
IdentRunes == {ch \in Runes : isIdentChar(ch)}
Signs == {"+", "-"}
UnitLetters == {"u", "µ", "s", "h", "d", "w", "m"}

\* The cursor, with "the eof was read too" taken as "at the end".
offAt(e) == off = e \/ (e = Len(input) /\ off = Len(input) + 1)

-----------------------------------------------------------------------------
(* C2: a full stop.                                                        *)

\* C2: Scan on a '.' that is not followed by a digit (a lone '.' at the end of the
\* input too) returns ILLEGAL with literal "."; a '.' followed by a digit starts a
\* NUMBER.
C2_DotIllegal ==
    (called /\ first = ".") =>
        IF isDigit(second) THEN res.tok = NUMBER /\ Len(res.lit) >= 2 /\ res.lit[1] = "."
        ELSE res.tok = ILLEGAL /\ res.lit = <<".">>

\* What the code does instead: a lone '.' at the end of a longer input came back as
\* DOT with the empty literal, only the '.' consumed.
C2_Witness ==
    /\ called /\ first = "." /\ second = eof /\ start > 0
    /\ res.tok = DOT /\ res.lit = <<>> /\ off = start + 1

-----------------------------------------------------------------------------
(* C4: a sign.                                                             *)

signIsNumeric(s) ==
    \/ isDigit(runeAt(input, s + 2))
    \/ runeAt(input, s + 2) = "." /\ isDigit(runeAt(input, s + 3))

\* C4: when the first rune is '+' or '-', the result is a NUMBER or a duration whose
\* literal starts with the sign if and only if the next rune is a digit, or is '.'
\* followed by a digit; otherwise the result is PLUS or MINUS with an empty literal,
\* only the sign is consumed, and the next Scan starts at the rune after the sign.
C4_Sign ==
    /\ (called /\ first \in Signs) =>
           /\ res.pos = posAt(input, start + 1)
           /\ IF signIsNumeric(start)
              THEN /\ res.tok \in {NUMBER, DURATION_VAL}
                   /\ Len(res.lit) >= 2
                   /\ res.lit[1] = first
                   /\ off > start + 1
              ELSE /\ res.tok = (IF first = "+" THEN PLUS ELSE MINUS)
                   /\ res.lit = <<>>
                   /\ off = start + 1
    /\ (called /\ res.tok \in {PLUS, MINUS}) => (first \in Signs /\ ~signIsNumeric(start))
    /\ (calledTwice /\ prev.tok \in {PLUS, MINUS}) => start = prevStart + 1

\* A sign before a '.' that no digit follows was returned as an operator, and the
\* '.' was scanned by the next call.
C4_Witness ==
    /\ calledTwice /\ prev.tok = MINUS /\ res.tok = DOT
    /\ first = "." /\ second /= eof /\ start = prevStart + 1

-----------------------------------------------------------------------------
(* C5: the duration suffix.                                                *)

\* The last call began at a number with no fractional part: digits, or a sign and
\* digits, not followed by '.' and a digit.
intStart == IF first \in Signs THEN start + 2 ELSE start + 1
intEnd == RunEnd(intStart, Digits)
isInteger ==
    /\ called
    /\ isDigit(runeAt(input, intStart))
    /\ (first \in Signs \/ isDigit(first))
    /\ ~(runeAt(input, intEnd + 1) = "." /\ isDigit(runeAt(input, intEnd + 2)))

\* C5: with no fractional point, a following u, µ, s, h, d or w gives DURATION with
\* the sign, digits and that unit as literal; a following 'm' gives DURATION with the
\* unit "ms" if an 's' follows and "m" otherwise, the rune after 'm' left unconsumed;
\* with no unit the result is NUMBER and the peeked rune is not consumed.
C5_Duration ==
    isInteger =>
        LET u == runeAt(input, intEnd + 1)
        IN  /\ res.pos = posAt(input, start + 1)
            /\ IF u \in {"u", "µ", "s", "h", "d", "w"}
               THEN /\ res.tok = DURATION_VAL
                    /\ res.lit = SubSeq(input, start + 1, intEnd + 1)
                    /\ off = intEnd + 1
               ELSE IF u = "m" /\ runeAt(input, intEnd + 2) = "s"
               THEN /\ res.tok = DURATION_VAL
                    /\ res.lit = SubSeq(input, start + 1, intEnd + 2)
                    /\ off = intEnd + 2
               ELSE IF u = "m"
               THEN /\ res.tok = DURATION_VAL
                    /\ res.lit = SubSeq(input, start + 1, intEnd + 1)
                    /\ off = intEnd + 1
               ELSE /\ res.tok = NUMBER
                    /\ res.lit = SubSeq(input, start + 1, intEnd)
                    /\ off = intEnd

\* A signed duration in weeks was scanned, and another rune follows it.
C5_Witness ==
    /\ isInteger /\ first \in Signs
    /\ runeAt(input, intEnd + 1) = "w" /\ runeAt(input, intEnd + 2) /= eof
    /\ res.tok = DURATION_VAL

-----------------------------------------------------------------------------
(* C6: a fractional number before a unit letter.                           *)

\* Digits, '.', digits and a unit letter begin at the rune after cursor s.
fracEnd(s) == RunEnd(RunEnd(s + 1, Digits) + 2, Digits)
isFraction(s) ==
    /\ isDigit(runeAt(input, s + 1))
    /\ runeAt(input, RunEnd(s + 1, Digits) + 1) = "."
    /\ isDigit(runeAt(input, RunEnd(s + 1, Digits) + 2))
    /\ runeAt(input, fracEnd(s) + 1) \in UnitLetters

KeywordKinds == {keywords[n] : n \in DOMAIN keywords}

\* The fractional number itself: NUMBER, the whole fractional literal, the unit
\* letter not consumed.
fractionIsNumber ==
    (called /\ isFraction(start)) =>
        /\ res.tok = NUMBER
        /\ res.lit = SubSeq(input, start + 1, fracEnd(start))
        /\ off = fracEnd(start)

\* C6 as claimed: digits '.' digits before a unit letter scan as NUMBER with the
\* fractional literal, and the unit letter is returned by the next Scan as a
\* separate identifier or keyword token (read here for the unit letters a to z
\* only, which isLetter accepts whatever it makes of 'µ').
C6_UnitIsIdentifier ==
    /\ fractionIsNumber
    /\ (calledTwice /\ isFraction(prevStart)) =>
           /\ start = fracEnd(prevStart)
           /\ first /= "µ" => res.tok \in {IDENT} \cup KeywordKinds

\* C6 as amended: digits '.' digits before a unit letter scan as NUMBER with the
\* fractional literal, never as a duration; the unit letter is left unconsumed and
\* is the first rune of the next Scan, which, for a unit letter other than 'µ',
\* returns an identifier or keyword token for the run of identifier runes the letter
\* begins, when that run is not immediately followed by a double quote.
C6_FractionNoDuration ==
    /\ fractionIsNumber
    /\ (calledTwice /\ isFraction(prevStart)) =>
           /\ start = fracEnd(prevStart)
           /\ (first /= "µ" /\ runeAt(input, RunEnd(start + 1, IdentRunes) + 1) /= "\"") =>
                  /\ res.pos = posAt(input, start + 1)
                  /\ res.tok \in {IDENT} \cup KeywordKinds
                  /\ res.tok = IDENT =>
                         res.lit = SubSeq(input, start + 1, RunEnd(start + 1, IdentRunes))

\* "1.1s" and one more rune: the number, then the letter as an identifier.
C6_Witness ==
    /\ calledTwice /\ isFraction(prevStart) /\ prev.tok = NUMBER
    /\ res.tok = IDENT /\ res.lit = <<"s">> /\ runeAt(input, off + 1) /= eof

-----------------------------------------------------------------------------
(* C3: the position of a single-quoted string.                             *)

\* C3 as claimed: the position returned with the STRING or BADSTRING token of a
\* single-quoted literal is the position of its opening quote, at any offset.
C3_StringPosition ==
    (called /\ first = "'" /\ res.tok \in {STRING_, BADSTRING}) =>
        res.pos = posAt(input, start + 1)

\* A literal opened after the first rune of the input was scanned to its closing quote.
C3_Witness ==
    /\ called /\ first = "'" /\ start > 0
    /\ res.tok = STRING_ /\ res.lit = <<"a">>

-----------------------------------------------------------------------------
(* C7: whitespace.                                                         *)

\* C7: one WS token per maximal run of whitespace: its literal is the whole run,
\* its position that of the run's first rune, the rune after the run is not
\* consumed, and no two consecutive results are both WS.
C7_Whitespace ==
    /\ (called /\ isWhitespace(first)) =>
           /\ res.tok = WS
           /\ res.lit = SubSeq(input, start + 1, RunEnd(start + 1, Blanks))
           /\ res.pos = posAt(input, start + 1)
           /\ offAt(RunEnd(start + 1, Blanks))
    /\ (called /\ res.tok = WS) => (isWhitespace(first) /\ prev.tok /= WS)

\* A run of two whitespace runes between two other tokens came back as one WS.
C7_Witness ==
    /\ calledTwice /\ res.tok = WS /\ Len(res.lit) = 2 /\ res.lit[2] = "\n"
    /\ prev.tok = IDENT /\ runeAt(input, off + 1) /= eof

-----------------------------------------------------------------------------
(* C8: bare identifiers and keywords.                                      *)

identEnd == RunEnd(start + 1, IdentRunes)
identRun == SubSeq(input, start + 1, identEnd)
startsIdent == called /\ (isLetter(first) \/ first = "_")

identOrKeyword ==
    /\ res.pos = posAt(input, start + 1)
    /\ offAt(identEnd)
    /\ IF ToLower(identRun) \in DOMAIN keywords
       THEN res.tok = keywords[ToLower(identRun)] /\ res.lit = <<>>
       ELSE res.tok = IDENT /\ res.lit = identRun

\* C8 as claimed: a maximal bare run of identifier characters starting with a letter
\* or underscore is returned as one token spanning the run: the keyword's kind with
\* an empty literal if the run, ignoring case, is a keyword, else IDENT with the run.
C8_BareRun == startsIdent => identOrKeyword

\* C8 as amended: the same, for a run that is not immediately followed by a double
\* quote.
C8_BareRunUnquoted ==
    (startsIdent /\ runeAt(input, identEnd + 1) /= "\"") => identOrKeyword

\* The keyword "or" written "oR" was scanned after another token.
C8_Witness ==
    /\ startsIdent /\ identRun = <<"o", "R">> /\ res.tok = OR /\ start > 0
    /\ runeAt(input, identEnd + 1) /= "\""

-----------------------------------------------------------------------------
(* C9, C10: keyword registration.                                          *)

\* The tables two LoadTokenMap calls, m1 then m2, may leave.
loadTwice(tk, kw, m1, m2) ==
    UNION {LoadTokenMap(o.tokens, o.keywords, m2) : o \in LoadTokenMap(tk, kw, m1)}

tablesNow == [tokens |-> tokens, keywords |-> keywords]

\* The last two calls registered one kind each: A as x, then B as y.
twoSingles(A, x, B, y) ==
    /\ Len(regs) = 2
    /\ regs[1].m = {<<A, x>>}
    /\ regs[2].m = {<<B, y>>}

\* After A as x then B as y: the other order and the single call with both would
\* have left these same tables, and x is looked up, and scanned, as kind A.
orderIndependent(A, x, B, y) ==
    /\ loadTwice(regs[1].tokens, regs[1].keywords, {<<B, y>>}, {<<A, x>>}) = {tablesNow}
    /\ LoadTokenMap(regs[1].tokens, regs[1].keywords, {<<A, x>>, <<B, y>>}) = {tablesNow}
    /\ Lookup(keywords, x) = A
    /\ Scan(x, keywords, 0).tok = A

\* C9 as claimed: for distinct kinds A, B with distinct names x, y, registering
\* {A:x} then {B:y}, {B:y} then {A:x}, or both at once leaves the same tables, and a
\* Lookup or Scan of x yields A.
C9_OrderIndependent ==
    \A A \in HostKinds, B \in HostKinds, x \in HostNames, y \in HostNames :
        (twoSingles(A, x, B, y) /\ A /= B /\ x /= y) => orderIndependent(A, x, B, y)

\* C9 as amended: the same, for names that are distinct once lower-cased.
C9_OrderIndependentLower ==
    \A A \in HostKinds, B \in HostKinds, x \in HostNames, y \in HostNames :
        (twoSingles(A, x, B, y) /\ A /= B /\ ToLower(x) /= ToLower(y))
            => orderIndependent(A, x, B, y)

\* CREATE was registered as "X" and then SELECT as "y", over tables in which "x"
\* already was a keyword of SELECT.
C9_Witness ==
    /\ twoSingles(CREATE, <<"X">>, SELECT, <<"y">>)
    /\ Lookup(regs[1].keywords, <<"x">>) = SELECT
    /\ Lookup(keywords, <<"x">>) = CREATE

\* The last two calls registered the same kind K: as s1, then as s2.
reRegistered(K, s1, s2) == twoSingles(K, s1, K, s2) /\ ToLower(s1) /= ToLower(s2)

\* C10 as claimed (for names that differ even when lower-cased): after K is
\* registered as s1 and then as s2, K.String() = s2, Lookup(s2) = K, and s1 no
\* longer looks up to K.
C10_OldNameForgotten ==
    \A K \in HostKinds, s1 \in HostNames, s2 \in HostNames :
        reRegistered(K, s1, s2) =>
            /\ String(tokens, K) = s2
            /\ Lookup(keywords, s2) = K
            /\ Lookup(keywords, s1) /= K

\* C10 as amended: after K is registered as s1 and then as s2, K.String() = s2 and
\* Lookup(s2) = K; the keyword table is only added to, so s1 still looks up to K.
C10_OldNameKept ==
    \A K \in HostKinds, s1 \in HostNames, s2 \in HostNames :
        twoSingles(K, s1, K, s2) =>
            /\ String(tokens, K) = s2
            /\ Lookup(keywords, s2) = K
            /\ Lookup(keywords, s1) = K
            /\ Scan(s1, keywords, 0).tok = K

\* CREATE was registered as "x" and then as "y".
C10_Witness ==
    /\ reRegistered(CREATE, <<"x">>, <<"y">>)
    /\ String(tokens, CREATE) = <<"y">>
    /\ Lookup(keywords, <<"x">>) = CREATE

-----------------------------------------------------------------------------
(* C1: replay through the TokenBuffer.                                     *)

\* The last Scan call was the runJ-th after a run of runK consecutive Unscan calls.
afterRun == runK \in 1..(BufCap - 1) /\ runJ >= 1

\* C1 as claimed: after k consecutive Unscan calls (1 <= k <= N - 1) the next k Scan
\* calls return, in order, the k triples most recently returned before those Unscan
\* calls, and the Scan call after them returns a fresh token.
C1_ReplayReturned ==
    afterRun =>
        /\ ~panicked
        /\ (runJ <= runK /\ Len(before) >= runK) =>
               res = before[Len(before) - runK + runJ]
        /\ runJ = runK + 1 => fresh

\* C1 as amended: if the pending replay count is zero and the underlying scanner has
\* produced at least k triples when k consecutive Unscan calls (1 <= k <= N - 1) are
\* made, the next k Scan calls return, in order, the k triples most recently
\* produced by the underlying scanner, without advancing it, and the Scan call
\* after them returns a fresh token.
C1_ReplayProduced ==
    (afterRun /\ clean /\ runBase >= runK) =>
        /\ ~panicked
        /\ runJ <= runK =>
               /\ ~fresh
               /\ Len(produced) = runBase
               /\ res = produced[runBase - runK + runJ]
        /\ runJ = runK + 1 =>
               /\ fresh
               /\ Len(produced) = runBase + 1
               /\ res = produced[runBase + 1]

\* Five tokens were pushed back and the fifth of them has just been replayed; the
\* replayed triples differ from one another.
C1_Witness ==
    /\ afterRun /\ clean /\ runK = BufCap - 1 /\ runJ = runK /\ runBase > runK
    /\ res = produced[runBase]
    /\ \A a \in 1..runBase, b \in 1..runBase : a /= b => produced[a] /= produced[b]

-----------------------------------------------------------------------------
(* C14, C16, C17: the steps of the TokenBuffer.                            *)

\* What the underlying scanner's regex scan returns from the cursor, and where it
\* leaves the cursor.
regexNow == ScanRegex(input, off)
scanNow == Scan(input, keywords, off)

\* The buffer with the slot after the write cursor overwritten by triple t.
stored(t) == [bbuf EXCEPT ![(bi + 1) % BufCap] = t]

\* The last call replayed, as the first call after a single Unscan, the triple a
\* regex scan had produced just before.
regexReplayed ==
    /\ afterRun /\ clean /\ runK = 1 /\ runJ = 1 /\ runBase >= 1
    /\ produced[runBase].tok \in {REGEX, BADREGEX, BADESCAPE}
    /\ Len(produced) = runBase

\* C14: TokenBuffer.ScanRegex with a positive pending count decrements it and
\* returns a buffered triple without running the regex scan; with a zero count it
\* runs the scanner's ScanRegex once, stores the result in the next circular slot
\* and returns it; that result is what the Scan or ScanRegex call after one Unscan
\* returns.
C14_RegexReplay ==
    /\ [][BufScanRegex =>
            IF bn > 0
            THEN /\ bn' = bn - 1
                 /\ off' = off /\ produced' = produced /\ bbuf' = bbuf
                 /\ \E k \in 0..(BufCap - 1) : res' = bbuf[k]
            ELSE /\ bn' = 0
                 /\ off' = normOff(input, regexNow.off)
                 /\ produced' = Append(produced, Triple(regexNow))
                 /\ bi' = (bi + 1) % BufCap
                 /\ bbuf' = stored(Triple(regexNow))
                 /\ res' = Triple(regexNow)]_vars
    /\ [](regexReplayed => (~fresh /\ res = produced[runBase]))

\* The regex of the sample line was scanned, pushed back and returned again.
C14_Witness ==
    /\ regexReplayed /\ ~fresh
    /\ res = [tok |-> REGEX, pos |-> <<0, 0>>, lit |-> <<"a", "/">>]

\* C16: TokenBuffer.Scan or ScanRegex called with a positive pending count
\* decrements it by exactly one and leaves the write cursor, every buffered entry,
\* the underlying scanner's input and cursor, and the tables unchanged.
C16_ReplayFrame ==
    [][((BufScan \/ BufScanRegex) /\ bn > 0) =>
          /\ bn' = bn - 1
          /\ UNCHANGED <<bi, bbuf, input, off, produced, tokens, keywords>>]_vars

\* A replay has returned a triple and another one is still pending, after the
\* scanner had read all of a sample line.
C16_Witness ==
    /\ ~fresh /\ runJ >= 1 /\ bn > 0 /\ ~panicked
    /\ off >= Len(input) /\ Len(input) >= 3
    /\ res.tok \in {REGEX, DIV}

\* C17: with a pending count of zero TokenBuffer.Scan advances the underlying
\* scanner by exactly one token, moves the write cursor to (i + 1) mod N, overwrites
\* only that slot with the new triple and returns it; Unscan increments the pending
\* count by one and changes nothing else.
C17_FreshFrame ==
    /\ [][(BufScan /\ bn = 0) =>
            /\ off' = normOff(input, scanNow.off)
            /\ bi' = (bi + 1) % BufCap
            /\ bbuf' = stored(Triple(scanNow))
            /\ res' = Triple(scanNow)
            /\ bn' = 0
            /\ UNCHANGED <<input, tokens, keywords>>]_vars
    /\ [][BufUnscan =>
            /\ bn' = bn + 1
            /\ UNCHANGED <<bi, bbuf, input, off, res, produced, tokens, keywords>>]_vars

\* The write cursor has wrapped: the seventh fresh token went into slot 1, over the
\* first one, and was then pushed back.
C17_Witness ==
    /\ Len(produced) = BufCap + 1 /\ bi = 1 /\ bn = 1
    /\ bbuf[1] = produced[BufCap + 1] /\ bbuf[1] /= produced[1]
    /\ runK = 1 /\ runJ = 0

-----------------------------------------------------------------------------
(* C11: which tokens carry a literal.                                      *)

\* The runes the last call consumed.
consumed == SubSeq(input, start + 1, Min(off, Len(input)))

\* A quoted body with the backslash taken off every escaped quote.
RECURSIVE unescape(_)
unescape(b) ==
    IF b = <<>> THEN <<>>
    ELSE IF Len(b) >= 2 /\ b[1] = "\\" /\ b[2] \in {"'", "\""}
         THEN <<b[2]>> \o unescape(SubSeq(b, 3, Len(b)))
    ELSE <<b[1]>> \o unescape(Tail(b))

\* The body of the quoted part of the consumed text: what lies between its first
\* double quote and its last rune, the closing quote.
quoteAt == CHOOSE q \in (start + 1)..Len(input) :
               input[q] = "\"" /\ \A j \in (start + 1)..(q - 1) : input[j] /= "\""
quotedBody == unescape(SubSeq(input, quoteAt + 1, off - 1))
hasQuote == \E q \in (start + 1)..Min(off, Len(input)) : input[q] = "\""

\* The kinds whose tokens carry text.
TextKinds == {ILLEGAL, WS, IDENT, NUMBER, DURATION_VAL}
StringKinds == {STRING_, BADSTRING, BADESCAPE}

\* Punctuation, operators, keywords and EOF come with the empty literal.
fixedFormEmpty == (called /\ res.tok \notin TextKinds \cup StringKinds) => res.lit = <<>>

\* C11 as claimed: punctuation, operator, keyword and EOF tokens have an empty
\* literal, and every ILLEGAL, WS, IDENT, NUMBER and DURATION token carries the
\* consumed text as its literal.
C11_LiteralIsConsumed ==
    /\ fixedFormEmpty
    /\ (called /\ res.tok \in TextKinds) => res.lit = consumed

\* C11 as amended: punctuation, operator, keyword and EOF tokens have an empty
\* literal; every ILLEGAL, WS, NUMBER and DURATION token, and every IDENT token
\* scanned from a bare run, carries the consumed text as its literal; an IDENT token
\* whose text has a double-quoted part carries the body of that part, delimiters
\* stripped and escaped quotes unescaped.
C11_LiteralOrBody ==
    /\ fixedFormEmpty
    /\ (called /\ res.tok \in TextKinds) =>
           IF res.tok = IDENT /\ hasQuote THEN res.lit = quotedBody
           ELSE res.lit = consumed

\* After a parenthesis, which has no literal, a quoted identifier was scanned.
C11_Witness ==
    /\ calledTwice /\ prev.tok = LPAREN /\ prev.lit = <<>>
    /\ first = "\"" /\ res.tok = IDENT /\ res.lit = <<"o">> /\ consumed = <<"\"", "o", "\"">>

-----------------------------------------------------------------------------
(* C12: error tokens.                                                      *)

ErrorKinds == {ILLEGAL, BADSTRING, BADESCAPE}

\* C12: after Scan returns ILLEGAL, BADSTRING or BADESCAPE the offending input has
\* been consumed (ILLEGAL: the one rune; BADSTRING: everything up to the end of the
\* input; BADESCAPE: up to and including the rune after the backslash), and the
\* next Scan call starts after it and tokenizes the rest: it begins further on in
\* the input, right after the rune of an ILLEGAL, and finds EOF after a BADSTRING.
C12_ErrorsConsumed ==
    /\ (called /\ res.tok \in ErrorKinds) =>
           /\ off > start
           /\ res.tok = ILLEGAL => (off = start + 1 /\ res.lit = <<first>>)
           /\ res.tok = BADSTRING => off >= Len(input)
           /\ res.tok = BADESCAPE =>
                  (runeAt(input, off - 1) = "\\" /\ runeAt(input, off) \notin StringEscapes)
    /\ (calledTwice /\ prev.tok \in ErrorKinds) =>
           /\ start > prevStart
           /\ prev.tok = ILLEGAL => start = prevStart + 1
           /\ prev.tok = BADSTRING => res.tok = EOF
           /\ res.tok /= EOF => off > start

\* A bad escape in a string was reported, and the next call scanned the number
\* after it.
C12_Witness ==
    /\ calledTwice /\ prev.tok = BADESCAPE /\ prevFirst = "'"
    /\ res.tok = NUMBER /\ res.lit = <<"1">>

-----------------------------------------------------------------------------
(* C13: the end of the input.                                              *)

\* C13: a Scan call that starts with the input exhausted returns EOF with the empty
\* literal, and once a Scan call has returned EOF every later one returns EOF with
\* the empty literal as well, whatever token came before the end of the input.
C13_EofAbsorbing ==
    /\ []((called /\ start >= Len(input)) => (res.tok = EOF /\ res.lit = <<>>))
    /\ [][res.tok = EOF => (res'.tok = EOF /\ res'.lit = <<>>)]_vars

\* EOF was returned twice in a row after an input that ends with a number.
C13_Witness ==
    /\ calledTwice /\ prev.tok = EOF /\ res.tok = EOF /\ res.lit = <<>>
    /\ input = <<"a", " ", "1">>

-----------------------------------------------------------------------------
(* C15: quoted identifiers.                                                *)

\* C15: when the rune Scan begins at is a double quote, the result is what the
\* quoted scan gives: on success IDENT with the quoted body (delimiters stripped)
\* as its literal and no keyword lookup, so a quoted keyword name stays IDENT; on
\* failure the BADSTRING or BADESCAPE kind, position and literal of the quoted scan,
\* unchanged.
C15_QuotedIdentifier ==
    (called /\ first = "\"") =>
        LET q == scanString(input, start + 1)
        IN  IF q.tok \in {BADSTRING, BADESCAPE} THEN res = Triple(q)
            ELSE /\ res.tok = IDENT
                 /\ res.lit = q.lit
                 /\ res.lit = quotedBody
                 /\ off = q.off

\* The quoted name of the keyword OR came back as an identifier.
C15_Witness ==
    /\ called /\ first = "\"" /\ res.tok = IDENT /\ res.lit = <<"o", "r">>
    /\ Lookup(keywords, res.lit) = OR

-----------------------------------------------------------------------------
(* C18: operators of one and two runes.                                    *)

OperatorStarts == {"=", "!", ">", "<"}

\* The pairs that make one token, with its kind.
OperatorPairs ==
    {<<"=", "~", EQREGEX>>, <<"!", "=", NEQ>>, <<"!", "~", NEQREGEX>>,
     <<">", "=", GTE>>, <<">", ">", RSHIFT>>,
     <<"<", "=", LTE>>, <<"<", "<", LSHIFT>>, <<"<", ">", NEQ>>}

\* The kind of the first rune on its own; a lone '!' has none.
OperatorSingles == {<<"=", EQ>>, <<">", GT>>, <<"<", LT>>}

\* C18: after '=', '!', '>' or '<' the second rune is consumed only if the pair is
\* one of =~ != !~ >= >> <= << <>, and the token is then EQREGEX, NEQ, NEQREGEX, GTE,
\* RSHIFT, LTE, LSHIFT, NEQ with the empty literal; otherwise only the first rune is
\* consumed, the token is EQ, GT or LT with the empty literal, or ILLEGAL with literal
\* "!" for a lone '!', and the next Scan begins at the second rune.
C18_TwoRuneOperators ==
    /\ (called /\ first \in OperatorStarts) =>
           IF \E t \in OperatorPairs : t[1] = first /\ t[2] = second
           THEN /\ \E t \in OperatorPairs :
                       t[1] = first /\ t[2] = second /\ res.tok = t[3]
                /\ res.lit = <<>>
                /\ off = start + 2
           ELSE /\ off = start + 1
                /\ IF first = "!" THEN res.tok = ILLEGAL /\ res.lit = <<"!">>
                   ELSE /\ \E t \in OperatorSingles : t[1] = first /\ res.tok = t[2]
                        /\ res.lit = <<>>
    /\ (calledTwice /\ prevFirst \in OperatorStarts
                    /\ prev.tok \in {EQ, GT, LT, ILLEGAL}) =>
           /\ start = prevStart + 1
           /\ first = runeAt(input, prevStart + 2)

\* A lone '!' came back as ILLEGAL and the next call scanned the rune after it.
C18_Witness ==
    /\ calledTwice /\ prevFirst = "!" /\ prev.tok = ILLEGAL /\ prev.lit = <<"!">>
    /\ first = "x" /\ res.tok = IDENT /\ res.lit = <<"x">>

-----------------------------------------------------------------------------
(* C19: a full stop after a digit run with no digit behind it.             *)

\* The first digit of a number that a Scan call from cursor s begins, after its sign.
digitsFrom(s) == IF runeAt(input, s + 1) \in Signs THEN s + 2 ELSE s + 1

\* The call from cursor s begins at a digit run that is followed by a full stop and
\* no digit.
danglingPoint(s) ==
    /\ isDigit(runeAt(input, digitsFrom(s)))
    /\ runeAt(input, RunEnd(digitsFrom(s), Digits) + 1) = "."
    /\ ~isDigit(runeAt(input, RunEnd(digitsFrom(s), Digits) + 2))

\* C19: when a digit run is followed by a '.' that no digit follows, the number's
\* literal ends before the '.', both runes are left unconsumed, the next Scan begins
\* at the '.' and consumes it alone, and the Scan after that begins at the rune
\* behind the '.': no rune is lost or scanned twice.
C19_DanglingPoint ==
    /\ (called /\ danglingPoint(start)) =>
           /\ res.tok = NUMBER
           /\ res.lit = SubSeq(input, start + 1, RunEnd(digitsFrom(start), Digits))
           /\ off = RunEnd(digitsFrom(start), Digits)
    /\ (calledTwice /\ danglingPoint(prevStart)) =>
           /\ start = RunEnd(digitsFrom(prevStart), Digits)
           /\ first = "."
           /\ res.tok = DOT
           /\ off = start + 1
    /\ (calledTwice /\ prevFirst = "." /\ prev.tok = DOT) =>
           /\ start = prevStart + 1
           /\ first = runeAt(input, prevStart + 2)

\* "1.x": the number ended before the '.', and the next call returned the '.' with
\* the 'x' still to come.
C19_Witness ==
    /\ calledTwice /\ danglingPoint(prevStart)
    /\ prev.tok = NUMBER /\ prev.lit = <<"1">>
    /\ res.tok = DOT /\ second = "x" /\ off = start + 1

-----------------------------------------------------------------------------
(* C20: progress and termination.                                          *)

\* C20: every Scan call that returns something other than EOF has consumed, net of
\* the runes it pushed back, at least one rune of the input, and so, the input being
\* finite, a caller that keeps calling Scan eventually gets EOF.
C20_Progress ==
    /\ []((called /\ res.tok /= EOF) => (off > start /\ off <= Len(input) + 1))
    /\ <>(res.tok = EOF)

\* A call that pushed runes back still advanced: "1.s" gave NUMBER "1" with the '.'
\* and the 's' left, and the next call gave the '.'.
C20_Witness ==
    /\ calledTwice /\ input = <<"1", ".", "s">>
    /\ prev.tok = NUMBER /\ prevStart = 0 /\ start = 1
    /\ res.tok = DOT /\ off = 2

-----------------------------------------------------------------------------
(* C21: what the buffer returns was produced by the scanner.               *)

\* The slots written once the scanner has produced p triples, the last one into
\* slot i.
writtenSlots(i, p) == {currentIndex(i, k) : k \in 0..(Min(p, BufCap) - 1)}

\* A triple the underlying scanner has produced.
wasProduced(t) == \E k \in 1..Len(produced) : produced[k] = t

\* C21 as claimed: with the pending replay count never above the capacity, every
\* triple TokenBuffer.Scan or ScanRegex returns is one the underlying scanner produced
\* in this or an earlier call, and the slot it is read from has been written.
C21_NoFabricatedToken ==
    [][(BufScan \/ BufScanRegex) =>
           /\ \E k \in 1..Len(produced') : res' = produced'[k]
           /\ currentIndex(bi', bn') \in writtenSlots(bi', Len(produced'))]_vars

\* C21 as amended: with the pending replay count never above the capacity, a call of
\* TokenBuffer.Scan or ScanRegex made when the pending count is also at most the
\* number of triples the underlying scanner has produced returns a triple the
\* scanner produced in this or an earlier call (the one produced as many calls
\* before the last as tokens are still pending), read from a slot that has been
\* written.
C21_NoFabricatedTokenProduced ==
    [][((BufScan \/ BufScanRegex) /\ bn <= Len(produced)) =>
           /\ \E k \in 1..Len(produced') : res' = produced'[k]
           /\ res' = produced'[Len(produced') - bn']
           /\ currentIndex(bi', bn') \in writtenSlots(bi', Len(produced'))]_vars

\* Six triples were produced, six Unscan calls made the pending count the capacity,
\* and the next call returned the oldest triple, the '/' scanned first, read from
\* the slot after the write cursor.
C21_Witness ==
    /\ Len(produced) = BufCap
    /\ bn = BufCap - 1
    /\ runK = BufCap /\ runJ = 1 /\ ~fresh
    /\ res = produced[1] /\ res.tok = DIV
    /\ wasProduced(res)
    /\ currentIndex(bi, bn) = nextIndex(bi)

====
